---------------------------- MODULE Spec2Model ----------------------------
(***************************************************************************)
(* A model of the sublime-jekyll plugin (src/jekyll.py).                   *)
(*                                                                         *)
(* Text is a sequence of one-character strings, so that the regular        *)
(* expressions, the path functions and str.format act on characters as     *)
(* they do in Python.  A Python value (a setting's value, the result of a  *)
(* lookup) is a record [t, v]: None, a bool or a str.                      *)
(*                                                                         *)
(* Spec is the state machine of the window commands (new post, new draft,  *)
(* open post, open draft) and of the frontmatter command's poll loop.      *)
(* SpecTitle, SpecSetting and SpecFrontmatter apply the pure functions     *)
(* clean_title_input, get_setting and create_post_frontmatter to inputs    *)
(* drawn from bounded sets.                                                *)
(***************************************************************************)
EXTENDS Integers, Sequences, FiniteSets, TLC

VARIABLES
    project,         \* the active view's settings: the project-scoped 'Jekyll' block
    globalSettings,  \* Jekyll.sublime-settings as sublime.load_settings returns it
    PY3,             \* the interpreter of the host (line 12)
    cwdFiles,        \* the names os.listdir('.') returns
    disk,            \* the files under the posts and drafts directories: path -> content
    userSettings,    \* whether Packages/User/Jekyll.sublime-settings exists
    inputPanel,      \* the command whose 'Jekyll post title:' input panel is open
    posts,           \* the class attribute `posts` of each list command
    syntax,          \* the attribute `syntax` of each list command
    views,           \* one record per run of jekyll_post_frontmatter
    last,            \* what the most recent window command did, as the host saw it
    seq,             \* the number of window commands run so far
    pc,              \* the position of a pure-function specification
    args,            \* the inputs of a pure-function specification
    result           \* the outputs of a pure-function specification

vars == <<project, globalSettings, PY3, cwdFiles, disk, userSettings, inputPanel,
          posts, syntax, views, last, seq, pc, args, result>>

-----------------------------------------------------------------------------
(* Bounds of the model.                                                    *)

MaxTitleLen == 3
MaxCommands == 2
MaxPolls == 2

-----------------------------------------------------------------------------
(* Python values.                                                          *)

PyNone == [t |-> "none", v |-> <<>>]
PyStr(s) == [t |-> "str", v |-> s]
PyBool(b) == [t |-> "bool", v |-> b]

\* bool(x) for the values a setting can hold: None, '' and False are falsy.
py_truthy(x) ==
    CASE x.t = "none" -> FALSE
      [] x.t = "bool" -> x.v
      [] x.t = "str"  -> x.v # <<>>

\* str(x), which '{0}'.format(x) inserts.
py_str(x) ==
    CASE x.t = "none" -> <<"N", "o", "n", "e">>
      [] x.t = "bool" -> IF x.v THEN <<"T", "r", "u", "e">>
                                ELSE <<"F", "a", "l", "s", "e">>
      [] x.t = "str"  -> x.v

-----------------------------------------------------------------------------
(* Characters and strings.                                                 *)

UpperCase == <<"A", "B", "C", "D", "E", "F", "G", "H", "I", "J", "K", "L", "M",
               "N", "O", "P", "Q", "R", "S", "T", "U", "V", "W", "X", "Y", "Z">>
LowerCase == <<"a", "b", "c", "d", "e", "f", "g", "h", "i", "j", "k", "l", "m",
               "n", "o", "p", "q", "r", "s", "t", "u", "v", "w", "x", "y", "z">>
Digits == <<"0", "1", "2", "3", "4", "5", "6", "7", "8", "9">>

Range(s) == {s[i] : i \in DOMAIN s}

\* \w of the re module: letters, digits and the underscore.
IsWordChar(c) == c \in Range(UpperCase) \cup Range(LowerCase) \cup Range(Digits) \cup {"_"}

\* \s of the re module.
IsSpaceChar(c) == c \in {" ", "\t", "\n", "\r"}

lower_char(c) ==
    IF \E i \in DOMAIN UpperCase : UpperCase[i] = c
    THEN LowerCase[CHOOSE i \in DOMAIN UpperCase : UpperCase[i] = c]
    ELSE c

\* str.lower()
str_lower(s) == [i \in 1..Len(s) |-> lower_char(s[i])]

\* str.endswith(suffix)
str_endswith(s, suffix) ==
    /\ Len(suffix) <= Len(s)
    /\ SubSeq(s, Len(s) - Len(suffix) + 1, Len(s)) = suffix

\* str.startswith(prefix)
str_startswith(s, prefix) ==
    /\ Len(prefix) <= Len(s)
    /\ SubSeq(s, 1, Len(prefix)) = prefix

\* The decimal digits of n, zero-padded to `width` characters.
RECURSIVE ZeroPad(_, _)
ZeroPad(n, width) ==
    IF width = 0 THEN <<>>
    ELSE ZeroPad(n \div 10, width - 1) \o <<Digits[(n % 10) + 1]>>

\* datetime.strftime('%Y-%m-%d')
strftime_ymd(d) ==
    ZeroPad(d.y, 4) \o <<"-">> \o ZeroPad(d.m, 2) \o <<"-">> \o ZeroPad(d.d, 2)

-----------------------------------------------------------------------------
(* clean_title_input                                                       *)

\* A variant of the first substitution whose character class also keeps hyphens.
re_sub_strip_keep_hyphen(t) ==
    SelectSeq(t, LAMBDA c : IsWordChar(c) \/ IsSpaceChar(c) \/ c = "-")

\* re.sub('[^\w\s]', '', t): every character that is neither \w nor \s is dropped.
re_sub_strip(t) == SelectSeq(t, LAMBDA c : IsWordChar(c) \/ IsSpaceChar(c))

\* A variant of the second substitution with the pattern '[ _]+': each maximal
\* run of spaces and underscores becomes one hyphen.
RECURSIVE re_sub_runs(_)
re_sub_runs(t) ==
    IF t = <<>> THEN <<>>
    ELSE IF Head(t) \in {" ", "_"}
         THEN IF Len(t) > 1 /\ t[2] \in {" ", "_"}
              THEN re_sub_runs(Tail(t))
              ELSE <<"-">> \o re_sub_runs(Tail(t))
         ELSE <<Head(t)>> \o re_sub_runs(Tail(t))

\* re.sub(' |_', '-', t_str): each space and each underscore becomes a hyphen.
re_sub_separators(t) ==
    [i \in 1..Len(t) |-> IF t[i] \in {" ", "_"} THEN "-" ELSE t[i]]

clean_title_input(title, today) ==
    LET t     == str_lower(title)
        t_str == re_sub_separators(re_sub_strip(t))
        d_str == strftime_ymd(today)
    IN  d_str \o <<"-">> \o t_str

-----------------------------------------------------------------------------
(* Settings                                                                *)

Keys == {"posts_path", "drafts_path", "default_post_syntax", "default_post_layout",
         "default_post_categories", "default_post_tags", "default_post_published"}

\* The active view as get_setting sees it.  kind is
\*   "noview"  : window.active_view() is None, so view.settings() raises;
\*   "absent"  : the view's settings have no 'Jekyll' entry;
\*   "nondict" : the 'Jekyll' entry is not a mapping, so its .get raises;
\*   "dict"    : the 'Jekyll' entry is the mapping `map`.
NoView == [kind |-> "noview", map |-> <<>>]
NoBlock == [kind |-> "absent", map |-> <<>>]
BadBlock == [kind |-> "nondict", map |-> <<>>]
Block(m) == [kind |-> "dict", map |-> m]

\* dict.get(key): None for a key the mapping does not hold.
dict_get(m, key) == IF key \in DOMAIN m THEN m[key] ELSE PyNone

\* sublime.Settings.get(key, default)
settings_get(key, default) ==
    IF key \in DOMAIN globalSettings THEN globalSettings[key] ELSE default

\* A lookup that falls through to the global settings when the project block
\* does not hold the key.
get_setting_fallthrough(view, key, default) ==
    IF view.kind = "dict" /\ key \in DOMAIN view.map
    THEN view.map[key]
    ELSE settings_get(key, default)

\* The module-level get_setting(view, key, default=None).
get_setting(view, key, default) ==
    IF view.kind = "dict"
    THEN dict_get(view.map, key)
    ELSE settings_get(key, default)

\* JekyllNewPostBase.get_setting(key), on the window's active view.
NewPostBase_get_setting(key) ==
    IF project.kind = "dict"
    THEN dict_get(project.map, key)
    ELSE settings_get(key, PyNone)

\* JekyllPostFrontmatterCommand.get_setting(key, default), on the command's view.
Frontmatter_get_setting(key, default) ==
    IF project.kind = "dict"
    THEN dict_get(project.map, key)
    ELSE settings_get(key, default)

-----------------------------------------------------------------------------
(* create_post_frontmatter                                                 *)

FrontmatterTemplate ==
    <<"-", "-", "-", "\n">> \o
    <<"l", "a", "y", "o", "u", "t", ":", " ", "{", "0", "}", "\n">> \o
    <<"t", "i", "t", "l", "e", ":", " ", "{", "1", "}", "\n">> \o
    <<"p", "u", "b", "l", "i", "s", "h", "e", "d", ":", " ", "{", "2", "}", "\n">> \o
    <<"c", "a", "t", "e", "g", "o", "r", "i", "e", "s", ":", " ", "{", "3", "}", "\n">> \o
    <<"t", "a", "g", "s", ":", " ", "{", "4", "}", "\n">> \o
    <<"-", "-", "-", "\n", "\n">>

DigitValue(c) == (CHOOSE i \in DOMAIN Digits : Digits[i] = c) - 1

\* str.format with positional fields {0}..{9}: a field is replaced by str() of
\* the argument it numbers, every other character is copied.
RECURSIVE str_format(_, _)
str_format(tpl, fargs) ==
    IF tpl = <<>> THEN <<>>
    ELSE IF Head(tpl) = "{"
         THEN py_str(fargs[DigitValue(tpl[2]) + 1])
                \o str_format(SubSeq(tpl, 4, Len(tpl)), fargs)
         ELSE <<Head(tpl)>> \o str_format(Tail(tpl), fargs)

\* A variant that hands format the categories where the published flag belongs.
create_post_frontmatter_swapped(title) ==
    LET POST_LAYOUT     == NewPostBase_get_setting("default_post_layout")
        POST_TITLE      == PyStr(title)
        POST_CATEGORIES == NewPostBase_get_setting("default_post_categories")
        POST_TAGS       == NewPostBase_get_setting("default_post_tags")
        POST_PUBLISHED  == NewPostBase_get_setting("default_post_published")
    IN  str_format(FrontmatterTemplate,
                   <<POST_LAYOUT, POST_TITLE, POST_CATEGORIES, POST_PUBLISHED, POST_TAGS>>)

create_post_frontmatter(title) ==
    LET POST_LAYOUT     == NewPostBase_get_setting("default_post_layout")
        POST_TITLE      == PyStr(title)
        POST_CATEGORIES == NewPostBase_get_setting("default_post_categories")
        POST_TAGS       == NewPostBase_get_setting("default_post_tags")
        POST_PUBLISHED  == NewPostBase_get_setting("default_post_published")
    IN  str_format(FrontmatterTemplate,
                   <<POST_LAYOUT, POST_TITLE, POST_PUBLISHED, POST_CATEGORIES, POST_TAGS>>)

-----------------------------------------------------------------------------
(* Inputs of the specifications.                                           *)

SeqsUpTo(S, n) == UNION {[1..k -> S] : k \in 0..n}

\* An upper-case letter, a lower-case letter, a digit, the two separators, a
\* whitespace character that is not a space, a hyphen and a punctuation mark.
TitleAlphabet == {"A", "b", "1", "_", " ", "\t", "-", "!"}

Dates == {[y |-> 2024, m |-> 1, d |-> 5], [y |-> 2025, m |-> 11, d |-> 23]}

PostsDir == <<"/", "p">>
DraftsDir == <<"/", "d">>
OtherDir == <<"/", "q">>

\* The settings a partial assignment f stands for: the keys f maps to "missing"
\* are not in the mapping.
Missing == [t |-> "missing", v |-> <<>>]
SettingsFrom(f) == [k \in {k \in DOMAIN f : f[k].t # "missing"} |-> f[k]]
SettingsOver(K, V) == {SettingsFrom(f) : f \in [K -> V \cup {Missing}]}

cfgVars == <<project, globalSettings>>
envVars == <<PY3, cwdFiles>>
cmdVars == <<disk, userSettings, inputPanel, posts, syntax, views, last, seq>>
pureVars == <<pc, args, result>>

\* What a window command did: the error messages it showed, whether it opened
\* the user settings file, whether it reached create_and_open_file, what it
\* listed ("none", "cwd" or "dir") and handed to the quick panel, and the
\* exception raised outside catch_errors, with whether it left the command.
NoCommand ==
    [cmd |-> "none", title |-> <<>>, target |-> <<>>, messages |-> <<>>,
     settingsOpened |-> FALSE, createCalled |-> FALSE, listed |-> "none",
     panel |-> <<>>, panelShown |-> FALSE, exception |-> "none", escaped |-> FALSE]

\* The commands are not run in a pure-function specification.
CommandsIdle ==
    /\ PY3 = TRUE
    /\ cwdFiles = {}
    /\ disk = <<>>
    /\ userSettings = FALSE
    /\ inputPanel = "none"
    /\ posts = [c \in {"posts", "drafts"} |-> <<>>]
    /\ syntax = [c \in {"posts", "drafts"} |-> PyNone]
    /\ views = <<>>
    /\ last = NoCommand
    /\ seq = 0

-----------------------------------------------------------------------------
(* SpecTitle: clean_title_input on a title, then on the slug it returned.  *)

\* The result minus the date prefix 'YYYY-MM-DD-'.
SlugOf(out) == SubSeq(out, 12, Len(out))

InitTitle ==
    /\ CommandsIdle
    /\ project = NoBlock
    /\ globalSettings = <<>>
    /\ pc = "title"
    /\ args \in [title : SeqsUpTo(TitleAlphabet, MaxTitleLen), today : Dates]
    /\ result = [first |-> <<>>, second |-> <<>>]

CleanTitle ==
    /\ pc = "title"
    /\ result' = [result EXCEPT !.first = clean_title_input(args.title, args.today)]
    /\ pc' = "cleaned"
    /\ UNCHANGED <<args, cfgVars, envVars, cmdVars>>

CleanSlug ==
    /\ pc = "cleaned"
    /\ result' = [result EXCEPT
                    !.second = clean_title_input(SlugOf(result.first), args.today)]
    /\ pc' = "recleaned"
    /\ UNCHANGED <<args, cfgVars, envVars, cmdVars>>

NextTitle == CleanTitle \/ CleanSlug

SpecTitle == InitTitle /\ [][NextTitle]_vars

-----------------------------------------------------------------------------
(* SpecSetting: the two lookups of a key.                                  *)

PathValues == {PyStr(PostsDir), PyStr(OtherDir)}
LookupKeys == {"posts_path", "drafts_path", "default_post_syntax"}

InitSetting ==
    /\ CommandsIdle
    /\ project \in {NoView, NoBlock, BadBlock}
                    \cup {Block(m) : m \in SettingsOver({"posts_path", "drafts_path"}, PathValues)}
    /\ globalSettings \in SettingsOver({"posts_path", "drafts_path"}, PathValues)
    /\ pc = "lookup"
    /\ args \in [key : LookupKeys,
                  default : {PyNone, PyStr(<<"M", "a", "r", "k", "d", "o", "w", "n">>)}]
    /\ result = [module |-> PyNone, method |-> PyNone]

LookupModule ==
    /\ pc = "lookup"
    /\ result' = [result EXCEPT !.module = get_setting(project, args.key, args.default)]
    /\ pc' = "method"
    /\ UNCHANGED <<args, cfgVars, envVars, cmdVars>>

LookupMethod ==
    /\ pc = "method"
    /\ result' = [result EXCEPT !.method = NewPostBase_get_setting(args.key)]
    /\ pc' = "done"
    /\ UNCHANGED <<args, cfgVars, envVars, cmdVars>>

NextSetting == LookupModule \/ LookupMethod

SpecSetting == InitSetting /\ [][NextSetting]_vars

-----------------------------------------------------------------------------
(* SpecFrontmatter: create_post_frontmatter on a title.                    *)

FrontmatterKeys == {"default_post_layout", "default_post_categories",
                    "default_post_tags", "default_post_published"}
FrontmatterValues == {PyBool(TRUE), PyStr(<<"p", "o", "s", "t">>), PyStr(<<"[", "]">>)}
FrontmatterTitles == {<<>>, <<"M", "y", " ", "P", "o", "s", "t">>,
                      <<"H", "i", ",", " ", "{", "0", "}", "!">>}

InitFrontmatter ==
    /\ CommandsIdle
    /\ project \in {NoBlock, Block(<<>>),
                     Block([k \in {"default_post_layout"} |-> PyStr(<<"p", "a", "g", "e">>)])}
    /\ globalSettings \in SettingsOver(FrontmatterKeys, FrontmatterValues)
    /\ pc = "title"
    /\ args \in [title : FrontmatterTitles]
    /\ result = <<>>

CreateFrontmatter ==
    /\ pc = "title"
    /\ result' = create_post_frontmatter(args.title)
    /\ pc' = "done"
    /\ UNCHANGED <<args, cfgVars, envVars, cmdVars>>

NextFrontmatter == CreateFrontmatter

SpecFrontmatter == InitFrontmatter /\ [][NextFrontmatter]_vars

-----------------------------------------------------------------------------
(* Properties of clean_title_input, under SpecTitle.                       *)

Separators == {" ", "_"}

\* 'YYYY-MM-DD' written digit by digit.
DateText(d) ==
    <<Digits[((d.y \div 1000) % 10) + 1], Digits[((d.y \div 100) % 10) + 1],
      Digits[((d.y \div 10) % 10) + 1], Digits[(d.y % 10) + 1], "-",
      Digits[((d.m \div 10) % 10) + 1], Digits[(d.m % 10) + 1], "-",
      Digits[((d.d \div 10) % 10) + 1], Digits[(d.d % 10) + 1]>>

\* The characters of the title that are word characters or whitespace.
KeptChars(title) == SelectSeq(title, LAMBDA c : IsWordChar(c) \/ IsSpaceChar(c))

\* C3 as stated: the result is the date, a hyphen, and the lowercased title
\* without its non-word non-whitespace characters, in which each maximal run
\* of spaces and underscores is one hyphen, so that no two hyphens are adjacent.
C3_RunsBecomeOneHyphen ==
    pc # "title" =>
        /\ result.first = DateText(args.today) \o <<"-">>
                            \o re_sub_runs(KeptChars(str_lower(args.title)))
        /\ \A i \in 1..(Len(SlugOf(result.first)) - 1) :
              ~(SlugOf(result.first)[i] = "-" /\ SlugOf(result.first)[i + 1] = "-")

\* C3 amended: the result is the date 'YYYY-MM-DD', a hyphen, and one character
\* for each character of the title that is a word character or whitespace, in
\* order: a hyphen for a space or an underscore (one hyphen per separator, so n
\* adjacent separators give n adjacent hyphens), else the character lowercased.
C3_EachSeparatorBecomesAHyphen ==
    pc # "title" =>
        LET kept == KeptChars(args.title)
            out  == result.first
        IN  /\ Len(out) = 11 + Len(kept)
            /\ SubSeq(out, 1, 11) = DateText(args.today) \o <<"-">>
            /\ \A i \in 1..Len(kept) :
                  out[11 + i] = IF kept[i] \in Separators THEN "-" ELSE lower_char(kept[i])

\* A title with an upper-case letter and two adjacent separators has been cleaned.
C3_Witness ==
    /\ pc = "cleaned"
    /\ args.title = <<"A", " ", "_">>
    /\ SlugOf(result.first) = <<"a", "-", "-">>

\* C4 as stated: clean_title_input applied to the slug it returned, on the same
\* date, returns the same result again.
C4_Idempotent ==
    pc = "recleaned" => result.second = result.first

\* C4 amended: clean_title_input applied to the slug s it returned, on the same
\* date, returns the date, a hyphen and s without its hyphens; so the result is
\* the same again exactly when the title has no space and no underscore.
C4_RecleanDropsHyphens ==
    pc = "recleaned" =>
        LET s == SlugOf(result.first)
        IN  /\ result.second = SubSeq(result.first, 1, 11)
                                  \o SelectSeq(s, LAMBDA c : c # "-")
            /\ (result.second = result.first)
                  <=> ~(\E i \in 1..Len(args.title) : args.title[i] \in Separators)

\* The slug of a title with a space has been cleaned again and has changed.
C4_Witness ==
    /\ pc = "recleaned"
    /\ args.title = <<"b", " ", "b">>
    /\ SlugOf(result.first) = <<"b", "-", "b">>
    /\ SlugOf(result.second) = <<"b", "b">>

-----------------------------------------------------------------------------
(* Properties of get_setting, under SpecSetting.                           *)

\* C5 as stated: a lookup returns the project-scoped value when the project
\* 'Jekyll' block defines the key, and otherwise the global value; a block that
\* does not hold the key still yields the global value.
C5_ProjectThenGlobal ==
    pc = "done" =>
        /\ result.module = get_setting_fallthrough(project, args.key, args.default)
        /\ result.method = get_setting_fallthrough(project, args.key, PyNone)

-----------------------------------------------------------------------------
(* Properties of create_post_frontmatter, under SpecFrontmatter.           *)

Line(s) == s \o <<"\n">>

\* The text of a value: a string as it is, None and a bool by their Python names.
Shown(x) ==
    IF x.t = "str" THEN x.v
    ELSE IF x.t = "none" THEN <<"N", "o", "n", "e">>
    ELSE IF x.v THEN <<"T", "r", "u", "e">> ELSE <<"F", "a", "l", "s", "e">>

\* C7: the frontmatter is the line '---', the lines 'layout: ', 'title: ',
\* 'published: ', 'categories: ' and 'tags: ' in this order, each followed by its
\* value as it is (the title is the user's title, not the slug), the line '---'
\* and one empty line.
C7_FrontmatterBlock ==
    pc = "done" =>
        result =
            Line(<<"-", "-", "-">>)
            \o Line(<<"l", "a", "y", "o", "u", "t", ":", " ">>
                      \o Shown(NewPostBase_get_setting("default_post_layout")))
            \o Line(<<"t", "i", "t", "l", "e", ":", " ">> \o args.title)
            \o Line(<<"p", "u", "b", "l", "i", "s", "h", "e", "d", ":", " ">>
                      \o Shown(NewPostBase_get_setting("default_post_published")))
            \o Line(<<"c", "a", "t", "e", "g", "o", "r", "i", "e", "s", ":", " ">>
                      \o Shown(NewPostBase_get_setting("default_post_categories")))
            \o Line(<<"t", "a", "g", "s", ":", " ">>
                      \o Shown(NewPostBase_get_setting("default_post_tags")))
            \o Line(<<"-", "-", "-">>)
            \o Line(<<>>)

\* The frontmatter of 'My Post' with layout 'post', published true, categories
\* '[]' and no tags setting has been built.
C7_Witness ==
    /\ pc = "done"
    /\ args.title = <<"M", "y", " ", "P", "o", "s", "t">>
    /\ project = NoBlock
    /\ result =
        <<"-", "-", "-", "\n", "l", "a", "y", "o", "u", "t", ":", " ", "p",
        "o", "s", "t", "\n", "t", "i", "t", "l", "e", ":", " ", "M", "y", " ",
        "P", "o", "s", "t", "\n", "p", "u", "b", "l", "i", "s", "h", "e", "d",
        ":", " ", "T", "r", "u", "e", "\n", "c", "a", "t", "e", "g", "o", "r",
        "i", "e", "s", ":", " ", "[", "]", "\n", "t", "a", "g", "s", ":", " ",
        "N", "o", "n", "e", "\n", "-", "-", "-", "\n", "\n">>

-----------------------------------------------------------------------------
(* os.path and the file system.                                            *)

\* The index of the last occurrence of c in s, 0 when there is none.
LastIndexOf(s, c) ==
    IF \E i \in 1..Len(s) : s[i] = c
    THEN CHOOSE i \in 1..Len(s) : s[i] = c /\ \A j \in (i + 1)..Len(s) : s[j] # c
    ELSE 0

\* os.path.join(a, b) of two strings (posixpath).
os_path_join(a, b) ==
    IF str_startswith(b, <<"/">>) THEN b
    ELSE IF a = <<>> \/ str_endswith(a, <<"/">>) THEN a \o b
    ELSE a \o <<"/">> \o b

\* os.path.split(p): <<head, tail>>, the head without its trailing slash
\* unless it is the root.
os_path_split(p) ==
    LET i    == LastIndexOf(p, "/")
        head == SubSeq(p, 1, i)
        tl   == SubSeq(p, i + 1, Len(p))
    IN  <<IF i > 1 THEN SubSeq(p, 1, i - 1) ELSE head, tl>>

\* os.path.splitext(f): <<root, ext>>; the extension starts at the last dot of
\* the name, and a name's leading dot starts none.
os_path_splitext(f) ==
    LET i == LastIndexOf(f, ".")
    IN  IF i > LastIndexOf(f, "/") + 1
        THEN <<SubSeq(f, 1, i - 1), SubSeq(f, i, Len(f))>>
        ELSE <<f, <<>>>>

\* A test that never finds the path.
os_path_lexists_never(path) == FALSE

\* os.path.lexists(path)
os_path_lexists(path) == path \in DOMAIN disk

\* os.listdir(path): the names of the files directly in `path`.
os_listdir(path) ==
    {os_path_split(f)[2] : f \in {g \in DOMAIN disk : os_path_split(g)[1] = path}}

\* open(path, "a").close() on the files d: a missing file is created empty, an
\* existing one keeps its content.
open_append_close(d, path) ==
    IF path \in DOMAIN d THEN d
    ELSE [f \in DOMAIN d \cup {path} |-> IF f = path THEN <<>> ELSE d[f]]

\* JekyllNewPostBase.create_file(filename), on the files d.
create_file(d, filename) ==
    LET base == os_path_split(filename)[1]
        name == os_path_split(filename)[2]
    IN  IF name # <<>> THEN open_append_close(d, os_path_join(base, name)) ELSE d

-----------------------------------------------------------------------------
(* catch_errors and the path lookups.                                      *)

MissingPathMessage == [kind |-> "missing_path", path |-> <<>>]
UnknownErrorMessage == [kind |-> "unknown", path |-> <<>>]
ExistsMessage(path) == [kind |-> "exists", path |-> path]

Returned(x) == [exc |-> "none", value |-> x]
Raised(e) == [exc |-> e, value |-> PyNone]

\* The decorator, applied to the outcome r of the wrapped function: what the
\* call returns, the messages it shows and whether it opens the user settings
\* file (after copying the bundled default there when the file does not exist;
\* the bundled Packages/Jekyll/Jekyll.sublime-settings is taken to exist).
\* The handlers return nothing, so the call returns None after an exception.
catch_errors(r) ==
    CASE r.exc = "none" ->
           [value |-> r.value, messages |-> <<>>, openSettings |-> FALSE]
      [] r.exc = "MissingPathException" ->
           [value |-> PyNone, messages |-> <<MissingPathMessage>>, openSettings |-> TRUE]
      [] OTHER ->
           [value |-> PyNone, messages |-> <<UnknownErrorMessage>>, openSettings |-> FALSE]

\* A test that takes only None for a missing path.
path_is_missing_none_only(p) == p.t = "none"

\* `not p or p == ''`
path_is_missing(p) == ~py_truthy(p) \/ p = PyStr(<<>>)

posts_path_string ==
    catch_errors(
        LET p == get_setting(project, "posts_path", PyNone)
        IN  IF path_is_missing(p) THEN Raised("MissingPathException") ELSE Returned(p))

drafts_path_string ==
    catch_errors(
        LET p == NewPostBase_get_setting("drafts_path")
        IN  IF path_is_missing(p) THEN Raised("MissingPathException") ELSE Returned(p))

-----------------------------------------------------------------------------
(* The list commands.                                                      *)

Markdown == PyStr(<<"M", "a", "r", "k", "d", "o", "w", "n">>)
Textile == PyStr(<<"T", "e", "x", "t", "i", "l", "e">>)

MarkdownExtensions ==
    {<<".", "m", "a", "r", "k", "d", "o", "w", "n">>, <<".", "m", "d", "o", "w", "n">>,
     <<".", "m", "k", "d", "n">>, <<".", "m", "k", "d">>, <<".", "m", "d">>}
TextileExtension == <<".", "t", "e", "x", "t", "i", "l", "e">>

\* JekyllListPostsBase.get_syntax(file) with self.syntax = self_syntax: the
\* value it returns, which is also the new self.syntax.
get_syntax(self_syntax, f) ==
    IF \E e \in MarkdownExtensions : str_endswith(f, e) THEN Markdown
    ELSE IF str_endswith(f, TextileExtension) THEN Textile
    ELSE self_syntax

Entry(name, path) == [kind |-> "entry", name |-> name, path |-> path]
Placeholder(text) == [kind |-> "text", name |-> text, path |-> <<>>]

NoPostsFound ==
    Placeholder(<<"N", "o", " ", "p", "o", "s", "t", "s", " ", "f", "o", "u", "n", "d", "!">>)
NoDraftsFound ==
    Placeholder(<<"N", "o", " ", "d", "r", "a", "f", "t", "s", " ", "f", "o", "u", "n", "d", "!">>)

\* The loop of run over the names `order`, in the order os.listdir gave them,
\* from the attributes ps (posts) and syn (syntax).  os.path.join(path, f)
\* raises TypeError when path is None.
RECURSIVE list_loop(_, _, _, _)
list_loop(order, path, ps, syn) ==
    IF order = <<>> THEN [posts |-> ps, syntax |-> syn, exception |-> "none"]
    ELSE LET f  == Head(order)
             s2 == get_syntax(syn, f)
         IN  IF s2 = Markdown \/ s2 = Textile
             THEN IF path.t # "str"
                  THEN [posts |-> ps, syntax |-> s2, exception |-> "TypeError"]
                  ELSE list_loop(Tail(order), path,
                                 Append(ps, Entry(os_path_splitext(f)[1],
                                                  os_path_join(path.v, f))), s2)
             ELSE list_loop(Tail(order), path, ps, s2)

\* The orders in which os.listdir may return the names S.
Orders(S) == {o \in [1..Cardinality(S) -> S] : Range(o) = S}

-----------------------------------------------------------------------------
(* The frontmatter command.                                                *)

\* The view window.open_file(path) returns, with what the command's closure
\* holds (frontmatter, syntax) and what the command has done to it.
NewView(path, frontmatter, syn, loading, content) ==
    [path |-> path, frontmatter |-> frontmatter, syntax |-> syn,
     loading |-> loading, buffer |-> content, syntaxFile |-> PyNone,
     ops |-> <<>>, pollLog |-> <<>>, scheduled |-> FALSE]

\* A poll that inserts without asking whether the view is loading.
update_without_waiting(v) ==
    [v EXCEPT !.pollLog = Append(@, v.loading),
              !.scheduled = FALSE,
              !.buffer = v.frontmatter \o @,
              !.syntaxFile = v.syntax,
              !.ops = @ \o <<"insert", "set_syntax_file", "save">>]

\* update(): one poll of the view v.  pollLog records what is_loading() said.
update(v) ==
    IF v.loading
    THEN [v EXCEPT !.pollLog = Append(@, TRUE), !.scheduled = TRUE]
    ELSE [v EXCEPT !.pollLog = Append(@, FALSE),
                   !.scheduled = FALSE,
                   !.buffer = v.frontmatter \o @,
                   !.syntaxFile = v.syntax,
                   !.ops = @ \o <<"insert", "set_syntax_file", "save">>]

\* The files after the poll that took the view from v to w: the 'save' command
\* writes the buffer to the view's file.
after_save(d, v, w) ==
    IF Len(w.ops) > Len(v.ops)
    THEN [f \in DOMAIN d \cup {w.path} |-> IF f = w.path THEN w.buffer ELSE d[f]]
    ELSE d

-----------------------------------------------------------------------------
(* Spec: the window commands and the poll loop.                            *)

MainSettings(postsPath, draftsPath, syn) ==
    SettingsFrom(
        [k \in {"posts_path", "drafts_path", "default_post_syntax",
                 "default_post_layout", "default_post_published"} |->
            CASE k = "posts_path"            -> postsPath
              [] k = "drafts_path"           -> draftsPath
              [] k = "default_post_syntax"   -> syn
              [] k = "default_post_layout"   -> PyStr(<<"p", "o", "s", "t">>)
              [] k = "default_post_published" -> PyBool(TRUE)])

\* The configurations the commands run under.
Configs ==
    {[project |-> NoBlock,
      global  |-> MainSettings(PyStr(PostsDir), PyStr(DraftsDir), Missing)],
     [project |-> NoBlock,
      global  |-> MainSettings(PyStr(PostsDir), Missing, Textile)],
     [project |-> Block([k \in {"posts_path"} |-> PyStr(PostsDir)]),
      global  |-> MainSettings(PyStr(OtherDir), PyStr(DraftsDir), Missing)],
     [project |-> NoView,
      global  |-> MainSettings(PyStr(PostsDir), PyStr(<<>>), Missing)],
     [project |-> BadBlock,
      global  |-> MainSettings(Missing, PyStr(DraftsDir), Missing)]}

EmptyDisk == [f \in {} |-> <<>>]
OldPost == PostsDir \o <<"/", "a", ".", "m", "d">>
OldNote == PostsDir \o <<"/", "n", ".", "t", "x", "t">>
InitialDisks ==
    {EmptyDisk, [f \in {OldPost, OldNote} |-> IF f = OldPost THEN <<"x">> ELSE <<>>]}

\* The interpreter and the current directory of the host.  The current
\* directory is read only by os.listdir(None), which Python 2 refuses.
Hosts ==
    {[py3 |-> FALSE, cwd |-> {}], [py3 |-> TRUE, cwd |-> {}],
     [py3 |-> TRUE, cwd |-> {<<"c", ".", "m", "d">>}]}

MainTitles == {<<"A", " ", "b", "!">>}
MainDates == {[y |-> 2024, m |-> 1, d |-> 5]}

Init ==
    /\ \E c \in Configs : project = c.project /\ globalSettings = c.global
    /\ \E e \in Hosts : PY3 = e.py3 /\ cwdFiles = e.cwd
    /\ disk \in InitialDisks
    /\ userSettings = FALSE
    /\ inputPanel = "none"
    /\ posts = [c \in {"posts", "drafts"} |-> <<>>]
    /\ syntax = [c \in {"posts", "drafts"} |-> PyNone]
    /\ views = <<>>
    /\ last = NoCommand
    /\ seq = 0
    /\ pc = "commands"
    /\ args = <<>>
    /\ result = <<>>

\* JekyllNewPostCommand.run: doCommand shows the input panel.
NewPostRun ==
    /\ inputPanel' = "posts"
    /\ UNCHANGED <<cfgVars, envVars, pureVars, disk, userSettings, posts, syntax,
                   views, last, seq>>

\* JekyllNewDraftCommand.run: doCommand shows the input panel.
NewDraftRun ==
    /\ inputPanel' = "drafts"
    /\ UNCHANGED <<cfgVars, envVars, pureVars, disk, userSettings, posts, syntax,
                   views, last, seq>>

\* The user closes the input panel: on_cancel is None.
InputCancel ==
    /\ inputPanel # "none"
    /\ inputPanel' = "none"
    /\ UNCHANGED <<cfgVars, envVars, pureVars, disk, userSettings, posts, syntax,
                   views, last, seq>>

\* title_input(title), the input panel's on_done, with create_and_open_file
\* and the run of jekyll_post_frontmatter up to the return of its first poll.
\* `today` is datetime.today() and `loading` what the opened view's
\* is_loading() says at first.
TitleInput(title, today, loading) ==
    /\ inputPanel # "none"
    /\ seq < MaxCommands
    /\ LET IS_DRAFT    == inputPanel = "drafts"
           lookup      == IF IS_DRAFT THEN drafts_path_string ELSE posts_path_string
           post_dir    == lookup.value
           syn         == NewPostBase_get_setting("default_post_syntax")
           file_ext    == IF syn = Textile THEN TextileExtension ELSE <<".", "m", "d">>
           clean_title == clean_title_input(title, today) \o file_ext
           started     == [NoCommand EXCEPT
                             !.cmd = IF IS_DRAFT THEN "new_draft" ELSE "new_post",
                             !.title = title,
                             !.messages = lookup.messages,
                             !.settingsOpened = lookup.openSettings]
       IN  /\ userSettings' = (userSettings \/ lookup.openSettings)
           /\ IF post_dir.t # "str"
              THEN \* os.path.join(None, clean_title) raises TypeError
                   /\ last' = [started EXCEPT !.exception = "TypeError", !.escaped = TRUE]
                   /\ UNCHANGED <<disk, views>>
              ELSE LET full_path == os_path_join(post_dir.v, clean_title)
                   IN  IF os_path_lexists(full_path)
                       THEN /\ last' = [started EXCEPT
                                          !.target = full_path,
                                          !.messages = @ \o <<ExistsMessage(full_path)>>]
                            /\ UNCHANGED <<disk, views>>
                       ELSE LET frontmatter == create_post_frontmatter(title)
                                created     == create_file(disk, full_path)
                                reached     == [started EXCEPT !.target = full_path,
                                                               !.createCalled = TRUE]
                            IN  IF project.kind = "noview"
                                THEN \* active_view() is None: view.run_command raises
                                     /\ last' = [reached EXCEPT
                                                   !.exception = "AttributeError",
                                                   !.escaped = TRUE]
                                     /\ disk' = created
                                     /\ UNCHANGED views
                                ELSE LET v == NewView(full_path, frontmatter,
                                                Frontmatter_get_setting("default_post_syntax",
                                                                        Markdown),
                                                loading, created[full_path])
                                         w == update(v)
                                     IN  /\ last' = reached
                                         /\ views' = Append(views, w)
                                         /\ disk' = after_save(created, v, w)
    /\ inputPanel' = "none"
    /\ seq' = seq + 1
    /\ UNCHANGED <<cfgVars, envVars, pureVars, posts, syntax>>

\* The host finishes loading the file of view i.
ViewLoaded(i) ==
    /\ views[i].loading
    /\ views' = [views EXCEPT ![i].loading = FALSE]
    /\ UNCHANGED <<cfgVars, envVars, pureVars, disk, userSettings, inputPanel, posts,
                   syntax, last, seq>>

\* The timeout set by update fires: update polls view i again.  At most
\* MaxPolls polls find the view loading.
Poll(i) ==
    /\ views[i].scheduled
    /\ views[i].loading => Len(views[i].pollLog) < MaxPolls
    /\ LET w == update(views[i])
       IN  /\ views' = [views EXCEPT ![i] = w]
           /\ disk' = after_save(disk, views[i], w)
    /\ UNCHANGED <<cfgVars, envVars, pureVars, userSettings, inputPanel, posts,
                   syntax, last, seq>>

\* JekyllOpenPostCommand.run (cls = "posts") and JekyllOpenDraftCommand.run
\* (cls = "drafts"); os.listdir returns the names in any order.
OpenRun(cls) ==
    /\ seq < MaxCommands
    /\ LET lookup  == IF cls = "drafts" THEN drafts_path_string ELSE posts_path_string
           path    == lookup.value
           started == [NoCommand EXCEPT
                         !.cmd = IF cls = "drafts" THEN "open_drafts" ELSE "open_posts",
                         !.messages = lookup.messages,
                         !.settingsOpened = lookup.openSettings]
       IN  /\ userSettings' = (userSettings \/ lookup.openSettings)
           /\ IF path.t # "str" /\ ~PY3
              THEN \* Python 2: os.listdir(None) raises TypeError
                   /\ last' = [started EXCEPT !.exception = "TypeError", !.escaped = TRUE]
                   /\ UNCHANGED <<posts, syntax>>
              ELSE \* Python 3: os.listdir(None) lists the current directory
                   \E order \in Orders(IF path.t = "str" THEN os_listdir(path.v)
                                                          ELSE cwdFiles) :
                      LET listed == [started EXCEPT
                                       !.listed = IF path.t = "str" THEN "dir" ELSE "cwd"]
                          loop   == list_loop(order, path, posts[cls], syntax[cls])
                          ps     == IF ~(Len(loop.posts) > 0)
                                    THEN Append(loop.posts,
                                                IF cls = "drafts" THEN NoDraftsFound
                                                                  ELSE NoPostsFound)
                                    ELSE loop.posts
                      IN  /\ syntax' = [syntax EXCEPT ![cls] = loop.syntax]
                          /\ IF loop.exception # "none"
                             THEN /\ last' = [listed EXCEPT !.exception = loop.exception,
                                                            !.escaped = TRUE]
                                  /\ UNCHANGED posts
                             ELSE /\ posts' = [posts EXCEPT ![cls] = ps]
                                  /\ last' = [listed EXCEPT !.panel = ps,
                                                            !.panelShown = TRUE]
    /\ seq' = seq + 1
    /\ UNCHANGED <<cfgVars, envVars, pureVars, disk, inputPanel, views>>

Next ==
    \/ NewPostRun
    \/ NewDraftRun
    \/ InputCancel
    \/ \E title \in MainTitles, today \in MainDates, loading \in BOOLEAN :
         TitleInput(title, today, loading)
    \/ \E i \in 1..Len(views) : ViewLoaded(i)
    \/ \E i \in 1..Len(views) : Poll(i)
    \/ \E cls \in {"posts", "drafts"} : OpenRun(cls)

Spec == Init /\ [][Next]_vars

-----------------------------------------------------------------------------
(* Properties of the commands, under Spec.                                 *)

NewCommands == {"new_post", "new_draft"}
OpenCommands == {"open_posts", "open_drafts"}

\* The value of the path setting the command looks up.
PathLookup(cmd) ==
    IF cmd \in {"new_draft", "open_drafts"}
    THEN NewPostBase_get_setting("drafts_path")
    ELSE get_setting(project, "posts_path", PyNone)

\* The path setting is missing or empty.
PathMissing(cmd) == PathLookup(cmd) \in {PyNone, PyStr(<<>>)}

\* C1: a title_input whose target path exists before it leaves the files and
\* the views as they are (no create, insert or save), does not reach
\* create_and_open_file, and shows the 'File already exists' message.
C1_ExistingFileKept ==
    [][(/\ seq' = seq + 1
        /\ last'.cmd \in NewCommands
        /\ last'.target \in DOMAIN disk)
       => (/\ disk' = disk
           /\ views' = views
           /\ ~last'.createCalled
           /\ ExistsMessage(last'.target) \in Range(last'.messages))]_vars

\* A creation was refused for a file that holds a frontmatter saved before.
C1_Witness ==
    /\ last.cmd \in NewCommands
    /\ ExistsMessage(last.target) \in Range(last.messages)
    /\ last.target \in DOMAIN disk
    /\ disk[last.target] # <<>>
    /\ ~last.createCalled

\* C2: a title_input whose path setting is missing or empty creates no file
\* (create_and_open_file is not reached, the files and the views stay as they
\* are), shows the missing-path message and opens the user settings file.
C2_MissingPathRepairs ==
    [][(/\ seq' = seq + 1
        /\ last'.cmd \in NewCommands
        /\ PathMissing(last'.cmd))
       => (/\ ~last'.createCalled
           /\ disk' = disk
           /\ views' = views
           /\ MissingPathMessage \in Range(last'.messages)
           /\ last'.settingsOpened
           /\ userSettings')]_vars

\* A draft was asked for with an empty drafts_path and the settings file opened.
C2_Witness ==
    /\ last.cmd = "new_draft"
    /\ PathLookup("new_draft") = PyStr(<<>>)
    /\ last.messages = <<MissingPathMessage>>
    /\ last.settingsOpened
    /\ userSettings
    /\ ~last.createCalled

\* C6: an exception raised in a command, other than the two recognized kinds,
\* is caught and reported as the 'unknown error' message, and does not leave
\* the command.
C6_NoExceptionEscapes ==
    last.exception # "none" =>
        /\ ~last.escaped
        /\ UnknownErrorMessage \in Range(last.messages)

FrontmatterOps == <<"insert", "set_syntax_file", "save">>

\* C8: for each run of the frontmatter command, every poll but the last found
\* the view loading; while the last poll found it loading nothing is inserted
\* and a poll is scheduled; once a poll finds it loaded, the commands issued
\* are insert, set_syntax_file, save, once each in this order, the file holds
\* the frontmatter and no poll is scheduled.
C8_InsertOnceWhenLoaded ==
    \A i \in 1..Len(views) :
        LET v == views[i]
            n == Len(v.pollLog)
        IN  /\ n >= 1
            /\ \A k \in 1..(n - 1) : v.pollLog[k]
            /\ v.pollLog[n] => (v.ops = <<>> /\ v.scheduled /\ v.buffer = <<>>)
            /\ ~v.pollLog[n] => (/\ v.ops = FrontmatterOps
                                 /\ ~v.scheduled
                                 /\ v.buffer = v.frontmatter
                                 /\ disk[v.path] = v.frontmatter)

\* A view was polled twice while loading, and the third poll inserted and saved.
C8_Witness ==
    \E i \in 1..Len(views) :
        /\ views[i].pollLog = <<TRUE, TRUE, FALSE>>
        /\ views[i].ops = FrontmatterOps
        /\ disk[views[i].path] = views[i].frontmatter

RecognizedName(f) ==
    \E e \in MarkdownExtensions \cup {TextileExtension} : str_endswith(f, e)

\* C9: the list an open command hands to the quick panel is one entry
\* [name, path] for each file of the configured directory with a recognized
\* extension and nothing else, or the single placeholder when there is none.
C9_PanelListsTheDirectory ==
    (last.cmd \in OpenCommands /\ last.panelShown /\ ~PathMissing(last.cmd)) =>
        LET dir   == PathLookup(last.cmd).v
            names == {f \in os_listdir(dir) : RecognizedName(f)}
        IN  IF names = {}
            THEN last.panel = <<IF last.cmd = "open_drafts" THEN NoDraftsFound
                                                             ELSE NoPostsFound>>
            ELSE /\ Len(last.panel) = Cardinality(names)
                 /\ Range(last.panel) =
                      {Entry(os_path_splitext(f)[1], os_path_join(dir, f)) : f \in names}

\* C10: an open command whose path setting is missing or empty stops after
\* the settings-repair flow: it lists no directory, shows no quick panel and
\* raises no error.
C10_MissingPathStopsTheListing ==
    (last.cmd \in OpenCommands /\ PathMissing(last.cmd)) =>
        /\ last.settingsOpened
        /\ last.listed = "none"
        /\ ~last.panelShown
        /\ last.exception = "none"

=============================================================================
